---- MODULE Spec2Model ----
(***************************************************************************)
(* ABCBank: account creation, loan applications and account decorations.   *)
(* The model follows ABCBank.ipynb: the Account classes and their labels,  *)
(* the factories, the decorator classes, Customer, the BankingServices     *)
(* facade and LoanApplication.  Account objects live in a heap (a sequence *)
(* of records); a decorator object holds the index of the object it wraps. *)
(***************************************************************************)
EXTENDS Integers, Sequences, FiniteSets, TLC

VARIABLES account_factories, customer, heap, call

vars == <<account_factories, customer, heap, call>>

(***************************************************************************)
(* Bounds of the model.                                                    *)
(***************************************************************************)
\* Number of account objects the client keeps alive under Spec.
MaxObjects == 2
\* Number of account objects the client keeps alive under SpecDecorators.
MaxChain == 3

(***************************************************************************)
(* Thresholds written in the code.                                         *)
(***************************************************************************)
HomeLoanMaxAge == 50
LoanMinIncome == 50000
SavingsMinAge == 18
CreditThreshold == 700

(***************************************************************************)
(* Classes.                                                                *)
(***************************************************************************)
AccountClasses ==
    {"CurrentAccount", "HomeLoanAccount", "CarLoanAccount",
     "PersonalLoanAccount", "SavingsAccount"}

DecoratorClasses ==
    {"AccountDecorator", "BronzeAccountDecorator", "SilverAccountDecorator",
     "GoldAccountDecorator", "DiscountedAccount"}

\* The text each concrete Account class returns from account_type().
Label(cls) ==
    CASE cls = "CurrentAccount" -> "Current Account Created"
      [] cls = "HomeLoanAccount" -> "Home Loan Account Created"
      [] cls = "CarLoanAccount" -> "Car Loan Account Created"
      [] cls = "PersonalLoanAccount" -> "Personal Loan Account Created"
      [] cls = "SavingsAccount" -> "Savings Account Created"

\* The text each decorator class appends to the wrapped account's text.
Suffix(cls) ==
    CASE cls = "AccountDecorator" -> ""
      [] cls = "BronzeAccountDecorator" -> " with Bronze features"
      [] cls = "SilverAccountDecorator" -> " with Silver features"
      [] cls = "GoldAccountDecorator" -> " with Gold features"
      [] cls = "DiscountedAccount" -> " with discount"

\* A concrete account object: no wrapped account.
NewAccountObject(cls) == [cls |-> cls, account |-> 0]

\* AccountDecorator.__init__: self.account = account.
NewDecoratorObject(cls, account) == [cls |-> cls, account |-> account]

\* A faulty account_type: a decorator puts its suffix in front of the wrapped
\* account's text.
RECURSIVE account_type_prefixed(_, _)
account_type_prefixed(h, o) ==
    IF h[o].cls \in AccountClasses
    THEN Label(h[o].cls)
    ELSE Suffix(h[o].cls) \o account_type_prefixed(h, h[o].account)

\* account_type() of the object at index o of heap h, by dynamic dispatch:
\* a concrete account returns its label, a decorator asks the wrapped
\* account and appends its suffix.
RECURSIVE account_type(_, _)
account_type(h, o) ==
    IF h[o].cls \in AccountClasses
    THEN Label(h[o].cls)
    ELSE account_type(h, h[o].account) \o Suffix(h[o].cls)

\* The class of account each factory's create_account() instantiates.
FactoryProduct(factory) ==
    CASE factory = "CurrentAccountFactory" -> "CurrentAccount"
      [] factory = "HomeLoanAccountFactory" -> "HomeLoanAccount"
      [] factory = "CarLoanAccountFactory" -> "CarLoanAccount"
      [] factory = "PersonalLoanAccountFactory" -> "PersonalLoanAccount"
      [] factory = "SavingsAccountFactory" -> "SavingsAccount"

(***************************************************************************)
(* Customer.                                                               *)
(***************************************************************************)
Names == {"Ola Nordmann"}
Ages == {SavingsMinAge - 1, SavingsMinAge, HomeLoanMaxAge, HomeLoanMaxAge + 1}
Incomes == {LoanMinIncome - 1, LoanMinIncome}
Educations == {"Bachelor's", "Master's"}
CreditScores == {CreditThreshold, CreditThreshold + 1}

Customer ==
    [name : Names, age : Ages, income : Incomes, education : Educations,
     credit_score : CreditScores]

\* A faulty check_credit: a score of exactly the threshold passes.
check_credit_inclusive(c) == c.credit_score >= CreditThreshold

check_credit(c) == c.credit_score > CreditThreshold

(***************************************************************************)
(* BankingServices.                                                        *)
(***************************************************************************)
KnownTypes == {"Current", "HomeLoan", "CarLoan", "PersonalLoan", "Savings"}

\* A faulty factory table: the "Savings" entry is missing.
BankingServicesInit_NoSavings ==
    [t \in KnownTypes \ {"Savings"} |->
        CASE t = "Current" -> "CurrentAccountFactory"
          [] t = "HomeLoan" -> "HomeLoanAccountFactory"
          [] t = "CarLoan" -> "CarLoanAccountFactory"
          [] t = "PersonalLoan" -> "PersonalLoanAccountFactory"]

\* BankingServices.__init__: the factory table.
BankingServicesInit ==
    [t \in KnownTypes |->
        CASE t = "Current" -> "CurrentAccountFactory"
          [] t = "HomeLoan" -> "HomeLoanAccountFactory"
          [] t = "CarLoan" -> "CarLoanAccountFactory"
          [] t = "PersonalLoan" -> "PersonalLoanAccountFactory"
          [] t = "Savings" -> "SavingsAccountFactory"]

HomeLoanRejection ==
    "Sorry, customers over 50 do not qualify for home loans."
\* A different wording of the income rejection.
IncomeRejection_Short == "Sorry, minimum income of 50,000 required."

IncomeRejection ==
    "Sorry, you need a minimum income of 50,000 for car and personal loans."
SavingsRejection ==
    "Sorry, you need to be at least 18 years old to open a savings account."
InvalidType == "Invalid account type"
InvalidLevel == "Invalid level"
CreditRejection == "Sorry, your credit score is too low for a loan."

\* Faulty rule conditions: a comparison that includes the threshold, and an
\* income rule that forgets the account type.
HomeLoanRule_inclusive(type, c) == type = "HomeLoan" /\ c.age >= HomeLoanMaxAge
IncomeRule_inclusive(type, c) ==
    type \in {"CarLoan", "PersonalLoan"} /\ c.income <= LoanMinIncome
IncomeRule_any_type(type, c) == c.income < LoanMinIncome
SavingsRule_inclusive(type, c) == type = "Savings" /\ c.age <= SavingsMinAge

\* The conditions of the three rejection branches of create_account.
HomeLoanRule(type, c) == type = "HomeLoan" /\ c.age > HomeLoanMaxAge
IncomeRule(type, c) ==
    type \in {"CarLoan", "PersonalLoan"} /\ c.income < LoanMinIncome
SavingsRule(type, c) == type = "Savings" /\ c.age < SavingsMinAge

\* BankingServices.create_account: the text returned.  factories is the
\* table self.account_factories; the account the factory creates is a
\* temporary object, dropped when the method returns.
create_account(factories, type, c) ==
    IF HomeLoanRule(type, c) THEN HomeLoanRejection
    ELSE IF IncomeRule(type, c) THEN IncomeRejection
    ELSE IF SavingsRule(type, c) THEN SavingsRejection
    ELSE IF type \in DOMAIN factories
         THEN LET account == NewAccountObject(FactoryProduct(factories[type]))
              IN  account_type(<<account>>, 1)
         ELSE InvalidType

\* A faulty upgrade_account: the "Silver" branch builds a Gold decorator.
upgrade_account_silver_as_gold(h, a, level) ==
    IF level = "Bronze"
    THEN account_type(Append(h, NewDecoratorObject("BronzeAccountDecorator", a)),
                      Len(h) + 1)
    ELSE IF level \in {"Silver", "Gold"}
    THEN account_type(Append(h, NewDecoratorObject("GoldAccountDecorator", a)),
                      Len(h) + 1)
    ELSE "Invalid level"

\* BankingServices.upgrade_account: the text returned for the account at
\* index a of heap h.  The decorator is a temporary object.
upgrade_account(h, a, level) ==
    IF level = "Bronze"
    THEN account_type(Append(h, NewDecoratorObject("BronzeAccountDecorator", a)),
                      Len(h) + 1)
    ELSE IF level = "Silver"
    THEN account_type(Append(h, NewDecoratorObject("SilverAccountDecorator", a)),
                      Len(h) + 1)
    ELSE IF level = "Gold"
    THEN account_type(Append(h, NewDecoratorObject("GoldAccountDecorator", a)),
                      Len(h) + 1)
    ELSE InvalidLevel

\* BankingServices.apply_discount.
apply_discount(h, a) ==
    account_type(Append(h, NewDecoratorObject("DiscountedAccount", a)),
                 Len(h) + 1)

\* LoanApplication.apply_for_loan.
apply_for_loan(factories, type, c) ==
    IF check_credit(c)
    THEN create_account(factories, type, c)
    ELSE CreditRejection

(***************************************************************************)
(* The client: the calls it makes and the objects it constructs.           *)
(***************************************************************************)
\* The concrete accounts the client constructs itself (SavingsAccount() and
\* CurrentAccount() in the demonstration).
ClientAccountClasses == {"SavingsAccount", "CurrentAccount"}

TypeInputs == KnownTypes \cup {"Bogus"}
LevelInputs == {"Bronze", "Silver", "Gold", "Platinum"}

NoCall == [op |-> "none", type |-> "", level |-> "", account |-> 0, result |-> ""]

Init ==
    /\ account_factories = BankingServicesInit
    /\ customer \in Customer
    /\ heap = <<>>
    /\ call = NoCall

\* The client constructs a concrete account, e.g. SavingsAccount().
ConstructAccount(cls, max) ==
    /\ Len(heap) < max
    /\ heap' = Append(heap, NewAccountObject(cls))
    /\ UNCHANGED <<account_factories, customer, call>>

\* The client wraps an existing account in a decorator.
ConstructDecorator(cls, a, max) ==
    /\ Len(heap) < max
    /\ heap' = Append(heap, NewDecoratorObject(cls, a))
    /\ UNCHANGED <<account_factories, customer, call>>

CallAccountType(a) ==
    /\ call' = [op |-> "account_type", type |-> "", level |-> "",
                account |-> a, result |-> account_type(heap, a)]
    /\ UNCHANGED <<account_factories, customer, heap>>

CallCreateAccount(type) ==
    /\ call' = [op |-> "create_account", type |-> type, level |-> "",
                account |-> 0,
                result |-> create_account(account_factories, type, customer)]
    /\ UNCHANGED <<account_factories, customer, heap>>

\* A faulty upgrade: the account object itself becomes the decorator, wrapped
\* around a copy of what it was.
CallUpgradeAccount_in_place(a, level) ==
    /\ Len(heap) < MaxObjects
    /\ call' = [op |-> "upgrade_account", type |-> "", level |-> level,
                account |-> a, result |-> upgrade_account(heap, a, level)]
    /\ heap' = Append([heap EXCEPT ![a] =
                          NewDecoratorObject("GoldAccountDecorator", Len(heap) + 1)],
                      heap[a])
    /\ UNCHANGED <<account_factories, customer>>

CallUpgradeAccount(a, level) ==
    /\ call' = [op |-> "upgrade_account", type |-> "", level |-> level,
                account |-> a, result |-> upgrade_account(heap, a, level)]
    /\ UNCHANGED <<account_factories, customer, heap>>

CallApplyDiscount(a) ==
    /\ call' = [op |-> "apply_discount", type |-> "", level |-> "",
                account |-> a, result |-> apply_discount(heap, a)]
    /\ UNCHANGED <<account_factories, customer, heap>>

CallApplyForLoan(type) ==
    /\ call' = [op |-> "apply_for_loan", type |-> type, level |-> "",
                account |-> 0,
                result |-> apply_for_loan(account_factories, type, customer)]
    /\ UNCHANGED <<account_factories, customer, heap>>

Next ==
    \/ \E cls \in ClientAccountClasses : ConstructAccount(cls, MaxObjects)
    \/ \E cls \in DecoratorClasses, a \in DOMAIN heap :
           ConstructDecorator(cls, a, MaxObjects)
    \/ \E a \in DOMAIN heap : CallAccountType(a)
    \/ \E type \in TypeInputs : CallCreateAccount(type)
    \/ \E a \in DOMAIN heap, level \in LevelInputs : CallUpgradeAccount(a, level)
    \/ \E a \in DOMAIN heap : CallApplyDiscount(a)
    \/ \E type \in TypeInputs : CallApplyForLoan(type)

Spec == Init /\ [][Next]_vars

(***************************************************************************)
(* A second specification for the decorator classes alone: one customer,   *)
(* every concrete account class, deeper chains of decorators.              *)
(***************************************************************************)
Ola ==
    [name |-> "Ola Nordmann", age |-> 25, income |-> 70000,
     education |-> "Bachelor's", credit_score |-> 800]

InitDecorators ==
    /\ account_factories = BankingServicesInit
    /\ customer = Ola
    /\ heap = <<>>
    /\ call = NoCall

NextDecorators ==
    \/ \E cls \in AccountClasses : ConstructAccount(cls, MaxChain)
    \/ \E cls \in DecoratorClasses, a \in DOMAIN heap :
           ConstructDecorator(cls, a, MaxChain)
    \/ \E a \in DOMAIN heap : CallAccountType(a)

SpecDecorators == InitDecorators /\ [][NextDecorators]_vars

(***************************************************************************)
(* Properties.  The texts and thresholds below are written out as the      *)
(* specification states them, not taken from the definitions above.        *)
(***************************************************************************)
CreateCalled == call.op = "create_account"
LoanCalled == call.op = "apply_for_loan"

\* The texts with which create_account and apply_for_loan turn a request down.
Rejections ==
    {"Sorry, customers over 50 do not qualify for home loans.",
     "Sorry, you need a minimum income of 50,000 for car and personal loans.",
     "Sorry, you need to be at least 18 years old to open a savings account.",
     "Sorry, your credit score is too low for a loan.",
     "Invalid account type"}

\* C1: create_account("HomeLoan", customer) is a rejection exactly when
\* customer.age > 50, whatever the income, education and credit score; age 51
\* and above is rejected, age 50 and below gives "Home Loan Account Created".
C1_HomeLoanAge ==
    (CreateCalled /\ call.type = "HomeLoan") =>
        /\ (call.result \in Rejections) <=> (customer.age > 50)
        /\ customer.age >= 51 =>
               call.result = "Sorry, customers over 50 do not qualify for home loans."
        /\ customer.age <= 50 => call.result = "Home Loan Account Created"

C1_Witness ==
    /\ CreateCalled /\ call.type = "HomeLoan"
    /\ customer.age = 51 /\ customer.income = 50000 /\ customer.credit_score = 701
    /\ call.result \in Rejections

\* C2: create_account("CarLoan" or "PersonalLoan", customer) is a rejection
\* exactly when customer.income < 50000, independent of age; income 49999 is
\* rejected, income 50000 gives "Car Loan Account Created" resp.
\* "Personal Loan Account Created".
C2_LoanIncome ==
    (CreateCalled /\ call.type \in {"CarLoan", "PersonalLoan"}) =>
        /\ (call.result \in Rejections) <=> (customer.income < 50000)
        /\ customer.income <= 49999 =>
               call.result =
                   "Sorry, you need a minimum income of 50,000 for car and personal loans."
        /\ (customer.income >= 50000 /\ call.type = "CarLoan") =>
               call.result = "Car Loan Account Created"
        /\ (customer.income >= 50000 /\ call.type = "PersonalLoan") =>
               call.result = "Personal Loan Account Created"

C2_Witness ==
    /\ CreateCalled /\ call.type = "CarLoan"
    /\ customer.income = 50000 /\ customer.age = 51
    /\ call.result = "Car Loan Account Created"

\* C3: create_account("Savings", customer) is a rejection exactly when
\* customer.age < 18, independent of income and credit score; age 17 is
\* rejected, age 18 and above (ages over 50 too) gives "Savings Account Created".
C3_SavingsAge ==
    (CreateCalled /\ call.type = "Savings") =>
        /\ (call.result \in Rejections) <=> (customer.age < 18)
        /\ customer.age <= 17 =>
               call.result =
                   "Sorry, you need to be at least 18 years old to open a savings account."
        /\ customer.age >= 18 => call.result = "Savings Account Created"

C3_Witness ==
    /\ CreateCalled /\ call.type = "Savings"
    /\ customer.age = 18 /\ customer.income = 49999
    /\ call.result = "Savings Account Created"

\* C4: apply_for_loan(type, customer) returns the low-credit rejection exactly
\* when customer.credit_score <= 700, for every type (unknown types and
\* customers failing the age or income rule included); with a score of 701 or
\* more it returns what create_account(type, customer) returns.
C4_CreditGate ==
    LoanCalled =>
        /\ (call.result = "Sorry, your credit score is too low for a loan.")
               <=> (customer.credit_score <= 700)
        /\ customer.credit_score >= 701 =>
               call.result = create_account(account_factories, call.type, customer)

C4_Witness ==
    /\ LoanCalled /\ call.type = "HomeLoan"
    /\ customer.age = 51 /\ customer.credit_score = 700
    /\ call.result = "Sorry, your credit score is too low for a loan."

\* C5: create_account returns "Invalid account type" for every type outside
\* {"Current", "HomeLoan", "CarLoan", "PersonalLoan", "Savings"}, for every
\* customer, and never for a type inside that set.
C5_InvalidType ==
    CreateCalled =>
        ((call.result = "Invalid account type") <=>
            (call.type \notin {"Current", "HomeLoan", "CarLoan", "PersonalLoan", "Savings"}))

C5_Witness ==
    /\ CreateCalled /\ call.type = "Bogus"
    /\ customer.age = 17 /\ customer.income = 49999
    /\ call.result = "Invalid account type"

\* C6 as stated: the text of a rule rejection is the reason the specification
\* gives: "customers over 50 do not qualify for home loans.", "minimum income
\* of 50,000 required.", "must be at least 18 years old to open a savings
\* account.".
C6_SpecTexts ==
    CreateCalled =>
        /\ (call.type = "HomeLoan" /\ customer.age > 50) =>
               call.result = "customers over 50 do not qualify for home loans."
        /\ (call.type \in {"CarLoan", "PersonalLoan"} /\ customer.income < 50000) =>
               call.result = "minimum income of 50,000 required."
        /\ (call.type = "Savings" /\ customer.age < 18) =>
               call.result = "must be at least 18 years old to open a savings account."

\* C6 as amended: the text of a rule rejection is the sentence the code
\* returns: "Sorry, customers over 50 do not qualify for home loans.",
\* "Sorry, you need a minimum income of 50,000 for car and personal loans.",
\* "Sorry, you need to be at least 18 years old to open a savings account.".
C6_CodeTexts ==
    CreateCalled =>
        /\ (call.type = "HomeLoan" /\ customer.age > 50) =>
               call.result = "Sorry, customers over 50 do not qualify for home loans."
        /\ (call.type \in {"CarLoan", "PersonalLoan"} /\ customer.income < 50000) =>
               call.result =
                   "Sorry, you need a minimum income of 50,000 for car and personal loans."
        /\ (call.type = "Savings" /\ customer.age < 18) =>
               call.result =
                   "Sorry, you need to be at least 18 years old to open a savings account."

C6_Witness ==
    /\ CreateCalled /\ call.type = "PersonalLoan"
    /\ customer.income = 49999
    /\ call.result =
           "Sorry, you need a minimum income of 50,000 for car and personal loans."

\* The label of each concrete account class and the suffix of each named
\* decorator, as the specification lists them.
SpecLabel(cls) ==
    CASE cls = "CurrentAccount" -> "Current Account Created"
      [] cls = "HomeLoanAccount" -> "Home Loan Account Created"
      [] cls = "CarLoanAccount" -> "Car Loan Account Created"
      [] cls = "PersonalLoanAccount" -> "Personal Loan Account Created"
      [] cls = "SavingsAccount" -> "Savings Account Created"

SpecSuffix(cls) ==
    CASE cls = "BronzeAccountDecorator" -> " with Bronze features"
      [] cls = "SilverAccountDecorator" -> " with Silver features"
      [] cls = "GoldAccountDecorator" -> " with Gold features"
      [] cls = "DiscountedAccount" -> " with discount"

NamedDecorators ==
    {"BronzeAccountDecorator", "SilverAccountDecorator", "GoldAccountDecorator",
     "DiscountedAccount"}

\* The concrete account at the bottom of the chain of object o.
RECURSIVE BaseOf(_, _)
BaseOf(h, o) == IF h[o].account = 0 THEN o ELSE BaseOf(h, h[o].account)

\* The decorators d1..dn around the base of object o, innermost first.
RECURSIVE DecorationsOf(_, _)
DecorationsOf(h, o) ==
    IF h[o].account = 0 THEN <<>>
    ELSE Append(DecorationsOf(h, h[o].account), h[o].cls)

\* text followed by the suffixes of ds, first to last.
RECURSIVE WithSuffixes(_, _)
WithSuffixes(text, ds) ==
    IF ds = <<>> THEN text
    ELSE WithSuffixes(text \o SpecSuffix(Head(ds)), Tail(ds))

\* C7: for every concrete account and every sequence d1..dn of Bronze, Silver,
\* Gold and Discount decorators wrapped one around the other, account_type()
\* of the outermost object is the base label followed by the suffixes of
\* d1..dn in that order; the undecorated account gives the label alone.
C7_DecorationOrder ==
    (call.op = "account_type"
        /\ \A i \in DOMAIN DecorationsOf(heap, call.account) :
               DecorationsOf(heap, call.account)[i] \in NamedDecorators) =>
        call.result =
            WithSuffixes(SpecLabel(heap[BaseOf(heap, call.account)].cls),
                         DecorationsOf(heap, call.account))

C7_Witness ==
    /\ call.op = "account_type"
    /\ DecorationsOf(heap, call.account) =
           <<"BronzeAccountDecorator", "DiscountedAccount">>
    /\ heap[BaseOf(heap, call.account)].cls = "SavingsAccount"
    /\ call.result = "Savings Account Created with Bronze features with discount"

\* C8: upgrade_account(account, level) returns account.account_type() followed
\* by " with Bronze features", " with Silver features" or " with Gold features"
\* for level "Bronze", "Silver", "Gold", and "Invalid level" for every other
\* level; apply_discount(account) always returns account.account_type()
\* followed by " with discount" and never a rejection.
C8_UpgradeAndDiscount ==
    /\ call.op = "upgrade_account" =>
           call.result =
               CASE call.level = "Bronze" ->
                        account_type(heap, call.account) \o " with Bronze features"
                 [] call.level = "Silver" ->
                        account_type(heap, call.account) \o " with Silver features"
                 [] call.level = "Gold" ->
                        account_type(heap, call.account) \o " with Gold features"
                 [] OTHER -> "Invalid level"
    /\ call.op = "apply_discount" =>
           /\ call.result = account_type(heap, call.account) \o " with discount"
           /\ call.result \notin Rejections \cup {"Invalid level"}

C8_Witness ==
    /\ call.op = "upgrade_account" /\ call.level = "Silver"
    /\ heap[call.account].cls = "CurrentAccount"
    /\ call.result = "Current Account Created with Silver features"

\* A step in which the client constructs an object: the heap grows by one
\* object and nothing else changes.
ClientConstructs ==
    /\ Len(heap') = Len(heap) + 1
    /\ SubSeq(heap', 1, Len(heap)) = heap
    /\ UNCHANGED <<account_factories, customer, call>>

\* The call recorded last, made again in the present state, returns the
\* result recorded.
RepeatAgrees ==
    /\ call.op = "account_type" => call.result = account_type(heap, call.account)
    /\ call.op = "create_account" =>
           call.result = create_account(account_factories, call.type, customer)
    /\ call.op = "apply_for_loan" =>
           call.result = apply_for_loan(account_factories, call.type, customer)
    /\ call.op = "upgrade_account" =>
           call.result = upgrade_account(heap, call.account, call.level)
    /\ call.op = "apply_discount" =>
           call.result = apply_discount(heap, call.account)

\* A call leaves the factory table, the customer and every account object as
\* they were; a discount applied to a concrete account right after its Gold
\* upgrade carries no Gold suffix, and the account still gives its bare label.
CallsChangeNothing ==
    \/ ClientConstructs
    \/ /\ UNCHANGED <<account_factories, customer, heap>>
       /\ (/\ call.op = "upgrade_account" /\ call.level = "Gold"
           /\ call'.op = "apply_discount" /\ call'.account = call.account
           /\ heap[call.account].account = 0) =>
              /\ call'.result =
                     SpecLabel(heap[call.account].cls) \o " with discount"
              /\ account_type(heap', call.account) =
                     SpecLabel(heap[call.account].cls)

\* C9: every operation is a pure function of its arguments: no sequence of
\* create_account, upgrade_account, apply_discount and apply_for_loan calls
\* changes the factory table, a customer or an account, so a repeated call
\* returns the same result; a Gold upgrade followed by a discount on the same
\* account gives label + " with discount" and the account keeps its bare label.
C9_Pure == [](RepeatAgrees) /\ [][CallsChangeNothing]_vars

C9_Witness ==
    /\ call.op = "apply_discount"
    /\ heap[call.account] = [cls |-> "SavingsAccount", account |-> 0]
    /\ call.result = "Savings Account Created with discount"
    /\ account_type(heap, call.account) = "Savings Account Created"
    /\ account_factories = BankingServicesInit

\* The nine texts create_account can return.
NineTexts ==
    {"Current Account Created", "Home Loan Account Created",
     "Car Loan Account Created", "Personal Loan Account Created",
     "Savings Account Created",
     "Sorry, customers over 50 do not qualify for home loans.",
     "Sorry, you need a minimum income of 50,000 for car and personal loans.",
     "Sorry, you need to be at least 18 years old to open a savings account.",
     "Invalid account type"}

\* C10: at most one of the three rejection rules of create_account holds for
\* any (type, customer), and whichever holds decides the result, so the order
\* of evaluation does not matter; "Current" is never rejected; every result
\* is one of exactly nine texts.
C10_RulesExclusive ==
    /\ Cardinality(NineTexts) = 9
    /\ \A t \in TypeInputs :
           Cardinality({r \in 1..3 :
               \/ r = 1 /\ HomeLoanRule(t, customer)
               \/ r = 2 /\ IncomeRule(t, customer)
               \/ r = 3 /\ SavingsRule(t, customer)}) <= 1
    /\ CreateCalled =>
           /\ HomeLoanRule(call.type, customer) =>
                  call.result = "Sorry, customers over 50 do not qualify for home loans."
           /\ IncomeRule(call.type, customer) =>
                  call.result =
                      "Sorry, you need a minimum income of 50,000 for car and personal loans."
           /\ SavingsRule(call.type, customer) =>
                  call.result =
                      "Sorry, you need to be at least 18 years old to open a savings account."
           /\ call.type = "Current" => call.result = "Current Account Created"
           /\ call.result \in NineTexts

C10_Witness ==
    /\ CreateCalled /\ call.type = "Current"
    /\ customer.age = 51 /\ customer.income = 49999
    /\ call.result = "Current Account Created"

====
